---- MODULE Spec2Model ----
(***************************************************************************)
(* TribalGIS (src/app.py): the /extract pipeline (upload -> OCR -> NER ->  *)
(* geocode) and the SQLite persistence layer behind /save, /markers and    *)
(* /db_data, as one state machine.  One request is handled at a time.      *)
(* External collaborators (pytesseract, spaCy, the geopy rate limiter) are *)
(* nondeterministic choices over the outcomes they can produce.            *)
(***************************************************************************)
EXTENDS Integers, Sequences, FiniteSets, TLC

VARIABLES
    pc,         \* position of the request handler: "idle", "extract_ocr",
                \* "extract_ner", "extract_loop", "save_loop", "crashed"
    req,        \* the route of the current (or last) request
    response,   \* the JSON body and HTTP status of the last finished request
    uploads,    \* names of the files present in UPLOAD_FOLDER
    db,         \* committed content of claims.db
    tx,         \* content seen through the request's connection (db plus its
                \* uncommitted inserts)
    snap,       \* db and uploads as they were when the current request began
    text,       \* extract: OCR text; save: payload text
    doc,        \* extract: doc.ents, the spans the NER model yielded
    entities,   \* extract: the list being built; save: the payload's list
    seq,        \* the handlers' local counter seq
    idx,        \* position of the for loop in doc.ents / entities
    claim_id,   \* save: cur.lastrowid after the claim insert (0: none yet)
    ocrLog,     \* extract: what the OCR call did ("none": not called)
    geoLog,     \* extract: per span, what the geocode call did ("skip": no call)
    nerCalls,   \* extract: calls of nlp() made by this request
    geoCalls    \* extract: calls of geocode() made by this request

vars == <<pc, req, response, uploads, db, tx, snap, text, doc, entities, seq,
          idx, claim_id, ocrLog, geoLog, nerCalls, geoCalls>>

-----------------------------------------------------------------------------
(* Bounds of the model *)

\* at most this many spans in one document
MaxSpans == 2
\* at most this many claims are ever inserted
MaxSaves == 2

-----------------------------------------------------------------------------
(* Input domains *)

Text119 == "Village aaaaaaaaaaaaaaaaaaaaaaaaaaaaaaaaaaaaaaaaaaaaaaaaaaaaaaaaaaaaaaaaaaaaaaaaaaaaaaaaaaaaaaaaaaaaaaaaaaaaaaaaaaaaaaa"
Text120 == "Village aaaaaaaaaaaaaaaaaaaaaaaaaaaaaaaaaaaaaaaaaaaaaaaaaaaaaaaaaaaaaaaaaaaaaaaaaaaaaaaaaaaaaaaaaaaaaaaaaaaaaaaaaaaaaaaa"

\* spans the NER model can yield: (label_, text)
SpanKinds ==
    { [label |-> "ORG",    text |-> Text119],
      [label |-> "GPE",    text |-> Text120],
      [label |-> "PERSON", text |-> "Delhi"] }

Docs == UNION { [1..n -> SpanKinds] : n \in 0..MaxSpans }

\* what a call of the rate-limited geocode can do: return a Location, return
\* None (no match), or raise
GeoOutcomes == {"place", "none", "raise"}
OcrOutcomes == {"text", "raise"}
NerOutcomes == {"ents", "raise"}

\* the Location returned for a name (latitude, longitude)
Place == [latitude |-> 28, longitude |-> 77]

\* request.files["file"].filename: empty when the client sent no name
UploadNames == {"", "scan.png"}

-----------------------------------------------------------------------------
(* Python helpers *)

\* dict.get(k, default)
PyGet(d, k, default) == IF k \in DOMAIN d THEN d[k] ELSE default

\* str(entities): the list flattened to text; the text is kept apart from the
\* list it was made of
PyStr(v) == <<"str", v>>

NoResponse == [status |-> 0]

\* db and tx of a freshly initialised claims.db: both tables empty, both
\* AUTOINCREMENT counters at 0
EmptyDb == [claims |-> <<>>, points |-> <<>>, claimSeq |-> 0, pointSeq |-> 0]

-----------------------------------------------------------------------------
(* /extract *)

GeocodeLabels == {"GPE", "LOC", "FAC", "NORP", "ORG"}
MaxGeoTextLen == 120

ShouldGeocodeLe(ent) ==
    ent.label \in GeocodeLabels /\ Len(ent.text) <= MaxGeoTextLen

\* the condition under which the loop calls geocode(ent.text)
ShouldGeocode(ent) ==
    ent.label \in GeocodeLabels /\ Len(ent.text) < MaxGeoTextLen

\* f.filename or f"upload_{int(time.time())}.png"
UploadFilename(fname) == IF fname # "" THEN fname ELSE "upload_T.png"

EntityForZeroBased(ent, n, outcome) ==
    IF ShouldGeocode(ent) /\ outcome = "place"
    THEN [label |-> ent.label, text |-> ent.text, seq |-> n - 1,
          coordinates |-> [lat |-> Place.latitude, lon |-> Place.longitude]]
    ELSE IF ShouldGeocode(ent) /\ outcome = "raise"
    THEN [label |-> ent.label, text |-> ent.text, seq |-> n - 1,
          geo_error |-> "ge"]
    ELSE [label |-> ent.label, text |-> ent.text, seq |-> n - 1]

\* the dict entd the loop body builds for span ent, numbered n, when the
\* geocode call (made only if ShouldGeocode) ends with outcome
EntityFor(ent, n, outcome) ==
    IF ShouldGeocode(ent) /\ outcome = "place"
    THEN [label |-> ent.label, text |-> ent.text, seq |-> n,
          coordinates |-> [lat |-> Place.latitude, lon |-> Place.longitude]]
    ELSE IF ShouldGeocode(ent) /\ outcome = "raise"
    THEN [label |-> ent.label, text |-> ent.text, seq |-> n,
          geo_error |-> "ge"]
    ELSE [label |-> ent.label, text |-> ent.text, seq |-> n]

\* every request starts with fresh locals
FreshLocals ==
    /\ text' = ""
    /\ doc' = <<>>
    /\ entities' = <<>>
    /\ seq' = 0
    /\ idx' = 0
    /\ claim_id' = 0
    /\ geoLog' = <<>>
    /\ ocrLog' = "none"
    /\ nerCalls' = 0
    /\ geoCalls' = 0

\* the request is received: the "file" check and f.save(saved_path)
ExtractStart(hasFile, fname) ==
    /\ pc = "idle"
    /\ hasFile \/ fname = ""
    /\ req' = "extract"
    /\ snap' = [db |-> db, uploads |-> uploads]
    /\ FreshLocals
    /\ IF ~hasFile
       THEN /\ response' = [status |-> 400, error |-> "No file uploaded"]
            /\ pc' = "idle"
            /\ uploads' = uploads
       ELSE /\ uploads' = uploads \cup {UploadFilename(fname)}
            /\ response' = NoResponse
            /\ pc' = "extract_ocr"
    /\ UNCHANGED <<db, tx>>

ExtractOcrIgnoreFailure(outcome) ==
    /\ pc = "extract_ocr"
    /\ ocrLog' = outcome
    /\ text' = IF outcome = "raise" THEN "" ELSE "ocr text"
    /\ pc' = "extract_ner"
    /\ UNCHANGED <<req, response, uploads, db, tx, snap, doc, entities, seq,
                   idx, claim_id, geoLog, nerCalls, geoCalls>>

\* pytesseract.image_to_string(Image.open(saved_path)) and its except clause
ExtractOcr(outcome) ==
    /\ pc = "extract_ocr"
    /\ ocrLog' = outcome
    /\ IF outcome = "raise"
       THEN /\ response' = [status |-> 500, error |-> "OCR failed: e"]
            /\ pc' = "idle"
            /\ text' = text
       ELSE /\ text' = "ocr text"
            /\ pc' = "extract_ner"
            /\ response' = response
    /\ UNCHANGED <<req, uploads, db, tx, snap, doc, entities, seq, idx,
                   claim_id, geoLog, nerCalls, geoCalls>>

\* doc = nlp(text); an exception goes to the handler's outer except clause
ExtractNer(outcome, ents) ==
    /\ pc = "extract_ner"
    /\ outcome = "ents" \/ ents = <<>>
    /\ nerCalls' = nerCalls + 1
    /\ IF outcome = "raise"
       THEN /\ response' = [status |-> 500, error |-> "ex"]
            /\ pc' = "idle"
            /\ UNCHANGED <<doc, idx>>
       ELSE /\ doc' = ents
            /\ idx' = 1
            /\ pc' = "extract_loop"
            /\ response' = response
    /\ UNCHANGED <<req, uploads, db, tx, snap, text, entities, seq, claim_id,
                   geoLog, ocrLog, geoCalls>>

ExtractEntityNoCatch(outcome) ==
    /\ pc = "extract_loop"
    /\ idx <= Len(doc)
    /\ ShouldGeocode(doc[idx]) \/ outcome = "none"
    /\ seq' = seq + 1
    /\ geoLog' = Append(geoLog, IF ShouldGeocode(doc[idx]) THEN outcome ELSE "skip")
    /\ geoCalls' = geoCalls + (IF ShouldGeocode(doc[idx]) THEN 1 ELSE 0)
    /\ IF ShouldGeocode(doc[idx]) /\ outcome = "raise"
       THEN /\ response' = [status |-> 500, error |-> "ge"]
            /\ pc' = "idle"
            /\ entities' = <<>>
            /\ idx' = 0
       ELSE /\ entities' = Append(entities, EntityFor(doc[idx], seq + 1, outcome))
            /\ idx' = idx + 1
            /\ UNCHANGED <<pc, response>>
    /\ UNCHANGED <<req, uploads, db, tx, snap, text, doc, claim_id, ocrLog,
                   nerCalls>>

\* one pass of "for ent in doc.ents": number the span, geocode it if allowed,
\* append it
ExtractEntity(outcome) ==
    /\ pc = "extract_loop"
    /\ idx <= Len(doc)
    /\ ShouldGeocode(doc[idx]) \/ outcome = "none"
    /\ seq' = seq + 1
    /\ entities' = Append(entities, EntityFor(doc[idx], seq + 1, outcome))
    /\ geoLog' = Append(geoLog, IF ShouldGeocode(doc[idx]) THEN outcome ELSE "skip")
    /\ geoCalls' = geoCalls + (IF ShouldGeocode(doc[idx]) THEN 1 ELSE 0)
    /\ idx' = idx + 1
    /\ UNCHANGED <<pc, req, response, uploads, db, tx, snap, text, doc,
                   claim_id, ocrLog, nerCalls>>

\* return jsonify({"text": text, "entities": entities})
ExtractReturn ==
    /\ pc = "extract_loop"
    /\ idx > Len(doc)
    /\ response' = [status |-> 200, text |-> text, entities |-> entities]
    /\ pc' = "idle"
    /\ entities' = <<>>
    /\ seq' = 0
    /\ idx' = 0
    /\ UNCHANGED <<req, uploads, db, tx, snap, text, doc, claim_id, geoLog,
                   ocrLog, nerCalls, geoCalls>>

-----------------------------------------------------------------------------
(* /save, /markers, /db_data *)

\* entities a /save payload can carry
EntDelhi  == [label |-> "GPE", text |-> "Delhi", seq |-> 1,
              coordinates |-> [lat |-> 28, lon |-> 77]]
EntPerson == [label |-> "PERSON", text |-> "Asha", seq |-> 1]
EntAgra   == [label |-> "GPE", text |-> "Agra", seq |-> 2,
              coordinates |-> [lat |-> 27, lon |-> 78]]
EntFailed == [label |-> "ORG", text |-> "Gram Sabha", seq |-> 3,
              geo_error |-> "ge"]
EntPune   == [label |-> "LOC", text |-> "Pune", seq |-> 4,
              coordinates |-> [lat |-> 18, lon |-> 73]]
EntNoLon  == [label |-> "GPE", text |-> "Agra", seq |-> 2,
              coordinates |-> [lat |-> 27]]
EntBare   == [coordinates |-> [lat |-> 28, lon |-> 77]]

\* the entity lists the model's payloads carry
EntityLists ==
    { <<EntDelhi>>,
      <<EntPerson, EntAgra, EntFailed, EntPune>>,
      <<EntDelhi, EntNoLon>>,
      <<EntBare>> }

\* request.get_json(): no JSON body, {}, a dict without "entities", or
\* {"text": ..., "entities": [...]} as the page posts it
Bodies ==
    { [has_json |-> FALSE], [has_json |-> TRUE, json |-> <<>>],
      [has_json |-> TRUE, json |-> [filename |-> "scan.png"]] }
    \cup { [has_json |-> TRUE, json |-> [text |-> "ocr text", entities |-> l]] :
             l \in EntityLists }

\* "not payload": None and the empty dict are falsy
NotPayload(body) == ~body.has_json \/ DOMAIN body.json = {}

NextRowIdReused(counter) == 1

\* AUTOINCREMENT: one more than the largest id the table ever held
NextRowId(counter) == counter + 1

\* INSERT INTO claims (filename, text, entities) on connection content d
InsertClaim(d, filename, txt, ents) ==
    [d EXCEPT !.claims = Append(@, [id |-> NextRowId(d.claimSeq),
                                    filename |-> filename, text |-> txt,
                                    entities |-> PyStr(ents)]),
              !.claimSeq = NextRowId(d.claimSeq)]

LastRowIdBeforeInsert(d) == 0

\* cur.lastrowid after the claim insert
LastRowId(d) == d.claims[Len(d.claims)].id

PointRowPayloadSeq(id, cid, e, n) ==
    [id |-> id, claim_id |-> cid, label |-> PyGet(e, "label", ""),
     name |-> PyGet(e, "text", ""), lat |-> e.coordinates.lat,
     lon |-> e.coordinates.lon, seq |-> PyGet(e, "seq", n)]

\* the row of INSERT INTO points for entity e with the local counter at n
PointRow(id, cid, e, n) ==
    [id |-> id, claim_id |-> cid, label |-> PyGet(e, "label", ""),
     name |-> PyGet(e, "text", ""), lat |-> e.coordinates.lat,
     lon |-> e.coordinates.lon, seq |-> n]

\* INSERT INTO points (...) on connection content d
InsertPoint(d, cid, e, n) ==
    [d EXCEPT !.points = Append(@, PointRow(NextRowId(d.pointSeq), cid, e, n)),
              !.pointSeq = NextRowId(d.pointSeq)]

CloseConnectionCommits(d, t) == t

\* db.close() at the end of the request: what the file holds afterwards, d
\* being its committed content and t the connection's view.  Inserts that
\* were not committed are gone.
CloseConnection(d, t) == d

DurableUncommitted(d, t) == t

\* what the file holds when the process dies while the connection's view is
\* t: both inserts run in the one transaction sqlite3 opens before the first
\* INSERT, and db.commit() is the only commit
Durable(d, t) == d

\* the request is received: get_json, the body check, get_db and the claim
\* insert
SaveBegin(body) ==
    /\ pc = "idle"
    /\ req' = "save"
    /\ snap' = [db |-> db, uploads |-> uploads]
    /\ IF NotPayload(body)
       THEN /\ FreshLocals
            /\ response' = [status |-> 400, error |-> "No JSON body"]
            /\ pc' = "idle"
            /\ tx' = tx
       ELSE /\ db.claimSeq < MaxSaves
            /\ text' = PyGet(body.json, "text", "")
            /\ entities' = PyGet(body.json, "entities", <<>>)
            /\ tx' = InsertClaim(db, PyGet(body.json, "filename", "uploaded"),
                                 PyGet(body.json, "text", ""),
                                 PyGet(body.json, "entities", <<>>))
            /\ claim_id' = LastRowId(tx')
            /\ seq' = 0
            /\ idx' = 1
            /\ doc' = <<>>
            /\ geoLog' = <<>>
            /\ ocrLog' = "none"
            /\ nerCalls' = 0
            /\ geoCalls' = 0
            /\ response' = NoResponse
            /\ pc' = "save_loop"
    /\ UNCHANGED <<uploads, db>>

\* one pass of "for e in entities"; a missing "lat" or "lon" raises KeyError,
\* which the except clause turns into a 500 before the connection is closed
SavePoint ==
    /\ pc = "save_loop"
    /\ idx <= Len(entities)
    /\ IF "coordinates" \notin DOMAIN entities[idx]
       THEN /\ idx' = idx + 1
            /\ UNCHANGED <<pc, response, db, tx, seq>>
       ELSE IF {"lat", "lon"} \subseteq DOMAIN entities[idx].coordinates
       THEN /\ seq' = seq + 1
            /\ tx' = InsertPoint(tx, claim_id, entities[idx], seq + 1)
            /\ idx' = idx + 1
            /\ UNCHANGED <<pc, response, db>>
       ELSE /\ seq' = seq + 1
            /\ response' = [status |-> 500, error |-> "KeyError"]
            /\ db' = CloseConnection(db, tx)
            /\ tx' = db'
            /\ pc' = "idle"
            /\ idx' = idx
    /\ UNCHANGED <<req, uploads, snap, text, doc, entities, claim_id, ocrLog,
                   geoLog, nerCalls, geoCalls>>

\* db.commit() and the success response
SaveCommit ==
    /\ pc = "save_loop"
    /\ idx > Len(entities)
    /\ db' = tx
    /\ response' = [status |-> 200, success |-> TRUE, claim_id |-> claim_id]
    /\ pc' = "idle"
    /\ idx' = 0
    /\ seq' = 0
    /\ UNCHANGED <<req, uploads, tx, snap, text, doc, entities, claim_id,
                   ocrLog, geoLog, nerCalls, geoCalls>>

\* an execute or the commit raises sqlite3.Error: the except clause answers
\* 500 and the connection is closed without a commit
SaveStorageError ==
    /\ pc = "save_loop"
    /\ response' = [status |-> 500, error |-> "sqlite3.Error"]
    /\ db' = CloseConnection(db, tx)
    /\ tx' = db'
    /\ pc' = "idle"
    /\ UNCHANGED <<req, uploads, snap, text, doc, entities, seq, idx, claim_id,
                   ocrLog, geoLog, nerCalls, geoCalls>>

RECURSIVE OrderByIdDesc(_)
\* ORDER BY id DESC
OrderByIdDesc(rows) ==
    IF rows = <<>> THEN <<>>
    ELSE LET m == CHOOSE i \in 1..Len(rows) :
                      \A j \in 1..Len(rows) : rows[j].id <= rows[i].id
             rest == [k \in 1..(Len(rows) - 1) |->
                          IF k < m THEN rows[k] ELSE rows[k + 1]]
         IN  <<rows[m]>> \o OrderByIdDesc(rest)

\* GET /markers
Markers ==
    /\ pc = "idle"
    /\ req' = "markers"
    /\ snap' = [db |-> db, uploads |-> uploads]
    /\ FreshLocals
    /\ response' = [status |-> 200, markers |-> OrderByIdDesc(db.points)]
    /\ UNCHANGED <<pc, uploads, db, tx>>

\* GET /db_data
DbData ==
    /\ pc = "idle"
    /\ req' = "db_data"
    /\ snap' = [db |-> db, uploads |-> uploads]
    /\ FreshLocals
    /\ response' = [status |-> 200, claims |-> OrderByIdDesc(db.claims),
                    points |-> OrderByIdDesc(db.points)]
    /\ UNCHANGED <<pc, uploads, db, tx>>

\* the process dies while a request is being handled: no response is sent,
\* the handler's locals stay as they were at that moment
Crash ==
    /\ pc \in {"extract_ocr", "extract_ner", "extract_loop", "save_loop"}
    /\ pc' = "crashed"
    /\ db' = Durable(db, tx)
    /\ tx' = db'
    /\ response' = NoResponse
    /\ UNCHANGED <<req, uploads, snap, text, doc, entities, seq, idx, claim_id,
                   ocrLog, geoLog, nerCalls, geoCalls>>

\* python app.py again: init_db (CREATE TABLE IF NOT EXISTS) and app.run
Restart ==
    /\ pc = "crashed"
    /\ pc' = "idle"
    /\ req' = "none"
    /\ snap' = [db |-> db, uploads |-> uploads]
    /\ FreshLocals
    /\ response' = NoResponse
    /\ UNCHANGED <<uploads, db, tx>>

-----------------------------------------------------------------------------

\* after "python app.py": init_db has created the empty tables
Init ==
    /\ pc = "idle"
    /\ req = "none"
    /\ response = NoResponse
    /\ uploads = {}
    /\ db = EmptyDb
    /\ tx = EmptyDb
    /\ snap = [db |-> EmptyDb, uploads |-> {}]
    /\ text = ""
    /\ doc = <<>>
    /\ entities = <<>>
    /\ seq = 0
    /\ idx = 0
    /\ claim_id = 0
    /\ ocrLog = "none"
    /\ geoLog = <<>>
    /\ nerCalls = 0
    /\ geoCalls = 0

Next ==
    \/ \E hasFile \in BOOLEAN, fname \in UploadNames : ExtractStart(hasFile, fname)
    \/ \E outcome \in OcrOutcomes : ExtractOcr(outcome)
    \/ \E outcome \in NerOutcomes, ents \in Docs : ExtractNer(outcome, ents)
    \/ \E outcome \in GeoOutcomes : ExtractEntity(outcome)
    \/ ExtractReturn
    \/ \E body \in Bodies : SaveBegin(body)
    \/ SavePoint
    \/ SaveCommit
    \/ SaveStorageError
    \/ Markers
    \/ DbData
    \/ Crash
    \/ Restart

Spec == Init /\ [][Next]_vars

-----------------------------------------------------------------------------
(* Properties *)

\* the last request was an /extract that answered 200
ExtractOk == req = "extract" /\ pc = "idle" /\ response.status = 200

\* the last request was a /save that answered 200
SaveOk == req = "save" /\ pc = "idle" /\ response.status = 200

\* the entity list of the /extract being (or last) handled
CurEntities ==
    IF req = "extract" /\ pc \in {"extract_loop", "crashed"} THEN entities
    ELSE IF ExtractOk THEN response.entities
    ELSE <<>>

HasCoordinates(e) == "coordinates" \in DOMAIN e

GeoEntities(l) == SelectSeq(l, HasCoordinates)

\* the rows of s after its first n
RowsAfter(s, n) == SubSeq(s, n + 1, Len(s))

\* number of point rows of claim cid in content d
PointCount(d, cid) ==
    Cardinality({i \in 1..Len(d.points) : d.points[i].claim_id = cid})

\* C1: a successful /extract returns one entity per span the extractor
\* yielded, in the extractor's order, the i-th with seq = i, so the seq
\* values are exactly 1..N, geocoded or not.
C1_EntitiesNumbered ==
    ExtractOk =>
        /\ Len(response.entities) = Len(doc)
        /\ \A i \in 1..Len(doc) :
              /\ response.entities[i].seq = i
              /\ response.entities[i].label = doc[i].label
              /\ response.entities[i].text = doc[i].text

C1_Witness ==
    /\ ExtractOk
    /\ Len(doc) >= 2
    /\ \E i \in 1..Len(doc) : HasCoordinates(response.entities[i])
    /\ \E i \in 1..Len(doc) : geoLog[i] = "skip"

\* C2: geocode is called for a span only if its label is one of GPE, LOC,
\* FAC, NORP, ORG and its text is shorter than 120; every other entity has
\* neither coordinates nor geo_error.
C2_GeocodeOnlyAllowed ==
    /\ geoCalls = Cardinality({i \in 1..Len(geoLog) : geoLog[i] # "skip"})
    /\ \A i \in 1..Len(geoLog) :
          LET allowed == /\ doc[i].label \in {"GPE", "LOC", "FAC", "NORP", "ORG"}
                         /\ Len(doc[i].text) < 120
          IN  /\ geoLog[i] # "skip" => allowed
              /\ (~allowed /\ i <= Len(CurEntities)) =>
                     DOMAIN CurEntities[i] = {"label", "text", "seq"}

C2_Witness ==
    /\ ExtractOk
    /\ \E i \in 1..Len(doc) :
          doc[i].label = "GPE" /\ Len(doc[i].text) = 120 /\ geoLog[i] = "skip"
    /\ \E i \in 1..Len(doc) :
          Len(doc[i].text) = 119 /\ geoLog[i] = "place"

\* C3: every geocode-attempted entity of a successful /extract ends with
\* exactly one of coordinates and geo_error: coordinates when the lookup
\* succeeded, geo_error and no coordinates when it raised or found no match.
C3_ExactlyOneOutcome ==
    ExtractOk =>
        \A i \in 1..Len(geoLog) :
            /\ geoLog[i] = "place" =>
                  /\ "coordinates" \in DOMAIN response.entities[i]
                  /\ "geo_error" \notin DOMAIN response.entities[i]
            /\ geoLog[i] \in {"none", "raise"} =>
                  /\ "geo_error" \in DOMAIN response.entities[i]
                  /\ "coordinates" \notin DOMAIN response.entities[i]

\* C4: a geocode call that raises never aborts /extract and never changes
\* another entity: the request still answers 200 with {text, entities} and
\* all N entities, and every other entity is what it would be had that call
\* returned a place or no match.
C4_GeocodeErrorIsLocal ==
    (req = "extract" /\ pc = "idle" /\ \E i \in 1..Len(geoLog) : geoLog[i] = "raise") =>
        /\ response.status = 200
        /\ DOMAIN response = {"status", "text", "entities"}
        /\ Len(response.entities) = Len(doc)
        /\ \A i \in 1..Len(geoLog) :
              geoLog[i] = "raise" =>
                  \A alt \in {"place", "none"} :
                      \A j \in (1..Len(doc)) \ {i} :
                          response.entities[j] =
                              EntityFor(doc[j], j, [geoLog EXCEPT ![i] = alt][j])

C4_Witness ==
    /\ ExtractOk
    /\ Len(doc) >= 2
    /\ geoLog[1] = "raise"
    /\ geoLog[2] = "place"

\* C5 as written: when OCR raises, /extract answers "OCR failed: ..." with
\* no entities, neither NER nor geocoding is called, and nothing is written
\* to storage: neither the database nor the upload folder changes.
C5_NoStorageWrites ==
    (req = "extract" /\ ocrLog = "raise" /\ pc # "crashed") =>
        /\ pc = "idle"
        /\ response = [status |-> 500, error |-> "OCR failed: e"]
        /\ nerCalls = 0
        /\ geoCalls = 0
        /\ db = snap.db
        /\ uploads = snap.uploads

\* C5, amended: when OCR raises, /extract answers "OCR failed: ..." with no
\* entities, neither NER nor geocoding is called, and the database is not
\* written; the uploaded file has been written to the upload folder.
C5_NoDatabaseWrites ==
    (req = "extract" /\ ocrLog = "raise" /\ pc # "crashed") =>
        /\ pc = "idle"
        /\ response = [status |-> 500, error |-> "OCR failed: e"]
        /\ nerCalls = 0
        /\ geoCalls = 0
        /\ db = snap.db
        /\ tx = db
        /\ snap.uploads \subseteq uploads
        /\ uploads # {}

C5_Witness ==
    /\ req = "extract"
    /\ ocrLog = "raise"
    /\ pc = "idle"
    /\ uploads # snap.uploads
    /\ Len(db.points) >= 1

\* C6: a successful /save adds exactly one claim row and one point row per
\* entity carrying coordinates, each with the new claim id and the entity's
\* label and text; the new points' seq values are 1..k in entity-list order
\* whatever seq the payload gave; the response carries the new claim id.
C6_SaveRows ==
    SaveOk =>
        LET geo == GeoEntities(entities)
            new == RowsAfter(db.points, Len(snap.db.points))
            row == db.claims[Len(db.claims)]
        IN  /\ db.claims = Append(snap.db.claims, row)
            /\ row.id = response.claim_id
            /\ row.text = text
            /\ row.entities = PyStr(entities)
            /\ db.points = snap.db.points \o new
            /\ Len(new) = Len(geo)
            /\ \A i \in 1..Len(new) :
                  /\ new[i].claim_id = response.claim_id
                  /\ new[i].seq = i
                  /\ new[i].label = PyGet(geo[i], "label", "")
                  /\ new[i].name = PyGet(geo[i], "text", "")
                  /\ new[i].lat = geo[i].coordinates.lat
                  /\ new[i].lon = geo[i].coordinates.lon

C6_Witness ==
    /\ SaveOk
    /\ Len(GeoEntities(entities)) >= 2
    /\ Len(entities) > Len(GeoEntities(entities))
    /\ \A i \in 1..Len(GeoEntities(entities)) : GeoEntities(entities)[i].seq # i
    /\ Len(snap.db.points) >= 1

\* C7: no deduplication: a successful /save returns a claim id no stored
\* claim had, claim ids are pairwise distinct, and the save adds one claim
\* and k points even when the same payload was saved before.
C7_DistinctClaimIds ==
    /\ \A i, j \in 1..Len(db.claims) :
          i # j => db.claims[i].id # db.claims[j].id
    /\ SaveOk =>
          /\ \A i \in 1..Len(snap.db.claims) :
                snap.db.claims[i].id # response.claim_id
          /\ Len(db.claims) = Len(snap.db.claims) + 1
          /\ Len(db.points) = Len(snap.db.points) + Len(GeoEntities(entities))

C7_Witness ==
    /\ SaveOk
    /\ Len(db.claims) = 2
    /\ db.claims[1].entities = db.claims[2].entities
    /\ db.claims[1].filename = db.claims[2].filename
    /\ db.claims[1].text = db.claims[2].text
    /\ db.claims[1].id # db.claims[2].id
    /\ Len(GeoEntities(entities)) >= 2
    /\ Len(db.points) = 2 * Len(GeoEntities(entities))

\* C8: in every committed state of the database, whatever requests came
\* before, every point row's claim_id is the id of a stored claim row.
C8_PointsReferenceClaims ==
    \A i \in 1..Len(db.points) :
        \E j \in 1..Len(db.claims) : db.claims[j].id = db.points[i].claim_id

C8_Witness ==
    /\ req = "save"
    /\ pc = "idle"
    /\ response = [status |-> 500, error |-> "sqlite3.Error"]
    /\ seq >= 1
    /\ Len(db.points) >= 1

\* the process died in /save after the claim insert and before the last
\* point insert, with at least one point inserted
CrashedMidSave ==
    /\ pc = "crashed"
    /\ req = "save"
    /\ claim_id # 0
    /\ seq >= 1
    /\ seq < Len(GeoEntities(entities))

\* C9 as written: after a crash in /save between the claim insert and the
\* last point insert, the claim is stored with fewer points than the payload
\* has entities carrying coordinates.
C9_PartialDataPersists ==
    CrashedMidSave =>
        \E j \in 1..Len(db.claims) :
            /\ db.claims[j].id = claim_id
            /\ PointCount(db, claim_id) < Len(GeoEntities(entities))

\* C9, amended: a crash in /save before the commit leaves the database as it
\* was before the request, and no stored claim ever has fewer (or more)
\* points than its payload had entities carrying coordinates.
C9_NoPartialData ==
    /\ (pc = "crashed" /\ req = "save") => db = snap.db
    /\ \A j \in 1..Len(db.claims) :
          PointCount(db, db.claims[j].id) = Len(GeoEntities(db.claims[j].entities[2]))

C9_Witness ==
    /\ CrashedMidSave
    /\ Len(tx.claims) = Len(db.claims)
    /\ Len(db.claims) >= 1

\* C10: a /save that answers with an error leaves the committed database as
\* it was: nothing of the request is stored, whether the body was missing
\* (400) or an exception was raised after the claim insert (500).
C10_FailedSaveStoresNothing ==
    (req = "save" /\ pc = "idle" /\ "error" \in DOMAIN response) =>
        /\ response.status \in {400, 500}
        /\ db = snap.db
        /\ tx = db

C10_Witness ==
    /\ req = "save"
    /\ pc = "idle"
    /\ response = [status |-> 500, error |-> "KeyError"]
    /\ claim_id # 0
    /\ seq = 2
    /\ Len(snap.db.claims) >= 1

====
